---- MODULE Spec2Model ----
(***************************************************************************)
(* Derived-metrics layer and prediction endpoints of the fleet-rental      *)
(* dashboard backend (predictions router, src/unnamed/part_007 447-892,   *)
(* over the store seeded by lines 240-441 of the same file), and the      *)
(* handlers that write the store: the rentals router                       *)
(* (src/server/routes/rentals.js), the alerts router (src/unnamed/part_008)*)
(* and the anomalies router (src/unnamed/part_007 893-1169).               *)
(*                                                                         *)
(* Numbers.  A JavaScript value that may be null / undefined / NaN is the  *)
(* record [t, v]: Num(n), Null, Undefined, NaN.  Values the code can only  *)
(* produce as finite integers (risk_score, confidence_score, ...) are      *)
(* plain integers.  Real arithmetic is exact rational arithmetic on        *)
(* integer numerators and denominators; Math.round(n/d) is RoundDiv(n, d). *)
(* Math.random() is k / RandomSteps for k in 0 .. RandomSteps-1.           *)
(* Column values are integers; on them the exact value and the IEEE double *)
(* the code computes round alike, except possibly at an exact half in      *)
(* predictedDemand (avgRentals * multiplier * days / 30).                  *)
(***************************************************************************)
EXTENDS Integers, Sequences, FiniteSets, TLC

VARIABLES
    kind,           \* request id -> endpoint handling it ("none": not received)
    period,         \* request id -> the ?period= query parameter of /demand
    pending,        \* request id -> db.all calls whose callback has not run
    completed,      \* request id -> `completed` counter of the /insights closure
    insights,       \* request id -> `insights` object of the /insights closure
    responses,      \* request id -> responses written to the client
    sendCalls,      \* request id -> number of res.json(...) calls made
    derivedCalls,   \* request id -> number of derived-metrics function calls
    queriesIssued,  \* request id -> number of db.all calls made
    crashed,        \* the process died of an uncaught exception
    store,          \* table -> its rows by primary key (or just the keys)
    calls,          \* request id -> the write request it carries and its step
    args,           \* arguments of a direct call of a derived-metrics function,
                    \* or the last request to the alerts / anomalies router
    result          \* its return value, or the response to that request

vars == <<kind, period, pending, completed, insights, responses, sendCalls,
          derivedCalls, queriesIssued, crashed, store, calls, args, result>>

handlerVars == <<kind, period, pending, completed, insights, responses,
                 sendCalls, derivedCalls, queriesIssued, crashed, store, calls>>

-----------------------------------------------------------------------------
(* Bounds of the model *)

\* requests in flight at once
MaxRequests == 2
\* Math.random() takes the values 0/RandomSteps .. (RandomSteps-1)/RandomSteps
RandomSteps == 13
\* grouped rows handed to the demand estimator
MaxRows == 8

\* the most rows that POST requests add to a table
MaxCreated == 2

-----------------------------------------------------------------------------
(* JavaScript values and operators *)

Num(n) == [t |-> "number", v |-> n]
Null == [t |-> "null", v |-> 0]
Undefined == [t |-> "undefined", v |-> 0]
NaN == [t |-> "NaN", v |-> 0]

\* ToNumber on the values a row column can hold: null is 0
ToNumber(x) == IF x.t = "number" THEN x.v ELSE 0

\* truthiness, as used by `x || d`
Truthy(x) == x.t = "number" /\ x.v # 0

\* x || d
OrElse(x, d) == IF Truthy(x) THEN x ELSE d

\* x < n for a numeric or null column x: null compares as 0, NaN and
\* undefined compare false
JsLess(x, n) == x.t \in {"number", "null"} /\ ToNumber(x) < n

\* x > n, likewise
JsGreater(x, n) == x.t \in {"number", "null"} /\ ToNumber(x) > n

Min(a, b) == IF a < b THEN a ELSE b
Max(a, b) == IF a > b THEN a ELSE b

\* Math.round(n / d) for d > 0: floor(n/d + 1/2), halves go up
RoundDiv(n, d) == (2 * n + d) \div (2 * d)

\* the empty object {} and obj[key] = val
EmptyObject == [k \in {} |-> {}]
Put(obj, key, val) ==
    [k \in DOMAIN obj \cup {key} |-> IF k = key THEN val ELSE obj[k]]

-----------------------------------------------------------------------------
(* getSeasonalMultiplier, multipliers in tenths *)

patterns ==
    ("Excavator" :> <<8, 9, 12, 13, 14, 13, 12, 11, 10, 9, 8, 7>>) @@
    ("Bulldozer" :> <<7, 8, 11, 13, 14, 14, 13, 12, 11, 10, 9, 8>>) @@
    ("Wheel Loader" :> <<9, 10, 11, 12, 13, 12, 11, 10, 10, 10, 9, 9>>)

\* patterns[equipmentType]?.[index], index counted from 0
PatternEntry(equipmentType, index) ==
    IF equipmentType \in DOMAIN patterns /\ index + 1 \in DOMAIN patterns[equipmentType]
    THEN Num(patterns[equipmentType][index + 1])
    ELSE Undefined

MutSeasonalMultiplier(equipmentType, month) ==
    OrElse(PatternEntry(equipmentType, month), Num(10)).v

getSeasonalMultiplier(equipmentType, month) ==
    OrElse(PatternEntry(equipmentType, month - 1), Num(10)).v

-----------------------------------------------------------------------------
(* generateDemandPredictions *)

RECURSIVE DistinctTypes(_)
\* [...new Set(historicalData.map(row => row.equipment_type))]: first occurrences
DistinctTypes(rows) ==
    IF rows = <<>> THEN <<>>
    ELSE LET front == DistinctTypes(SubSeq(rows, 1, Len(rows) - 1))
             type == rows[Len(rows)].equipment_type
         IN  IF \E i \in DOMAIN front : front[i] = type
             THEN front ELSE Append(front, type)

\* historicalData.filter(row => row.equipment_type === type)
TypeData(historicalData, type) ==
    SelectSeq(historicalData, LAMBDA row : row.equipment_type = type)

RECURSIVE SumRentals(_)
\* typeData.reduce((sum, row) => sum + row.historical_rentals, 0)
SumRentals(typeData) ==
    IF typeData = <<>> THEN 0
    ELSE SumRentals(Tail(typeData)) + Head(typeData).historical_rentals

\* a quotient num/den; den = 0 stands for 0/0, which is NaN
MutAvgRentals(typeData) ==
    [num |-> SumRentals(typeData), den |-> Len(typeData)]

\* sum / typeData.length || 0
AvgRentals(typeData) ==
    LET q == [num |-> SumRentals(typeData), den |-> Len(typeData)]
    IN  IF q.den = 0 \/ q.num = 0 THEN [num |-> 0, den |-> 1] ELSE q

MutConfidence(typeData) ==
    Min(95, Max(60, 60 + Len(typeData) * 2))

\* Math.min(95, Math.max(60, 80 + (typeData.length * 2)))
Confidence(typeData) ==
    Min(95, Max(60, 80 + Len(typeData) * 2))

\* Math.round(avgRentals * seasonalMultiplier * (days / 30))
PredictedDemand(avg, seasonalMultiplier, days) ==
    IF days.t # "number" \/ avg.den = 0 THEN NaN
    ELSE Num(RoundDiv(avg.num * seasonalMultiplier * days.v, avg.den * 10 * 30))

MutExceedsAvg(predictedDemand, avg) ==
    /\ predictedDemand.t = "number"
    /\ avg.den # 0
    /\ predictedDemand.v * avg.den >= avg.num

\* predictedDemand > avgRentals
ExceedsAvg(predictedDemand, avg) ==
    /\ predictedDemand.t = "number"
    /\ avg.den # 0
    /\ predictedDemand.v * avg.den > avg.num

\* the callback of equipmentTypes.map
DemandForType(historicalData, type, days, currentMonth) ==
    LET typeData == TypeData(historicalData, type)
        avgRentals == AvgRentals(typeData)
        seasonalMultiplier == getSeasonalMultiplier(type, currentMonth)
        predictedDemand == PredictedDemand(avgRentals, seasonalMultiplier, days)
    IN  [equipment_type |-> type,
         predicted_demand |-> predictedDemand,
         confidence_score |-> Confidence(typeData),
         trend |-> IF ExceedsAvg(predictedDemand, avgRentals)
                   THEN "increasing" ELSE "decreasing",
         factors |-> <<"seasonal_patterns", "historical_demand", "market_trends">>]

generateDemandPredictions(historicalData, days, currentMonth) ==
    LET equipmentTypes == DistinctTypes(historicalData)
    IN  [i \in DOMAIN equipmentTypes |->
            DemandForType(historicalData, equipmentTypes[i], days, currentMonth)]

-----------------------------------------------------------------------------
(* enhanceMaintenancePredictions and its helpers *)

\* generatePredictedIssues
generatePredictedIssues(equipment) ==
    (IF JsLess(equipment.engine_health, 80)
        THEN <<"Engine performance degradation">> ELSE <<>>) \o
    (IF JsLess(equipment.hydraulic_health, 75)
        THEN <<"Hydraulic system wear">> ELSE <<>>) \o
    (IF JsLess(equipment.transmission_health, 70)
        THEN <<"Transmission maintenance needed">> ELSE <<>>)

windows ==
    (5 :> "1-3 days") @@ (4 :> "1-2 weeks") @@ (3 :> "2-4 weeks") @@
    (2 :> "1-2 months") @@ (1 :> "3+ months")

MutMaintenanceWindow(equipment) ==
    LET urgency == OrElse(equipment.maintenance_priority, Num(1)).v
    IN  IF urgency \in DOMAIN windows THEN windows[urgency] ELSE "1-3 days"

\* calculateMaintenanceWindow: windows[priority || 1] || '3+ months'
calculateMaintenanceWindow(equipment) ==
    LET urgency == OrElse(equipment.maintenance_priority, Num(1)).v
    IN  IF urgency \in DOMAIN windows THEN windows[urgency] ELSE "3+ months"

baseCosts ==
    ("Excavator" :> 3000) @@ ("Bulldozer" :> 3500) @@ ("Wheel Loader" :> 2500) @@
    ("Motor Grader" :> 2800) @@ ("Articulated Truck" :> 4000)

\* estimateMaintenanceCost with a fallback base cost of 2500
MutEstimateMaintenanceCost(equipment) ==
    LET baseCost == IF equipment.equipment_type \in DOMAIN baseCosts
                    THEN baseCosts[equipment.equipment_type] ELSE 2500
        priority == OrElse(equipment.maintenance_priority, Num(1)).v
    IN  RoundDiv(baseCost * (10 + priority * 3), 10)

\* estimateMaintenanceCost: Math.round(baseCost * (1 + (priority || 1) * 0.3))
estimateMaintenanceCost(equipment) ==
    LET baseCost == IF equipment.equipment_type \in DOMAIN baseCosts
                    THEN baseCosts[equipment.equipment_type] ELSE 3000
        priority == OrElse(equipment.maintenance_priority, Num(1)).v
    IN  RoundDiv(baseCost * (10 + priority * 3), 10)

\* (healthFactor + utilizationFactor + ageFactor) * 33.33, in millionths
RiskRaw(item) ==
    LET healthFactor == (100 - ToNumber(item.overall_health_score)) * 100
        utilizationFactor == ToNumber(OrElse(item.utilization_rate, Num(0))) * 100
        ageFactor == ToNumber(OrElse(item.total_runtime_hours, Num(0)))
    IN  (healthFactor + utilizationFactor + ageFactor) * 3333

\* Math.min(100, Math.round((healthFactor + utilizationFactor + ageFactor) * 33.33))
RiskScore(item) ==
    Min(100, RoundDiv(RiskRaw(item), 1000000))

MutFailureProbability(riskScore, random) ==
    Min(95 * RandomSteps, riskScore * RandomSteps + 20 * random - 10 * RandomSteps)

\* Math.min(95, Math.max(5, riskScore + Math.random() * 20 - 10)), in
\* RandomSteps-ths; random is Math.random() * RandomSteps
FailureProbability(riskScore, random) ==
    Min(95 * RandomSteps,
        Max(5 * RandomSteps,
            riskScore * RandomSteps + 20 * random - 10 * RandomSteps))

\* the callback of data.map in enhanceMaintenancePredictions
EnhanceItem(item, random) ==
    LET riskScore == RiskScore(item)
        failureProbability == FailureProbability(riskScore, random)
    IN  [risk_score |-> riskScore,
         failure_probability |-> RoundDiv(failureProbability, RandomSteps),
         predicted_issues |-> generatePredictedIssues(item),
         maintenance_window |-> calculateMaintenanceWindow(item),
         cost_estimate |-> estimateMaintenanceCost(item)] @@ item

\* randoms[i] is the Math.random() draw made for data[i]
enhanceMaintenancePredictions(data, randoms) ==
    [i \in DOMAIN data |-> EnhanceItem(data[i], randoms[i])]

-----------------------------------------------------------------------------
(* generateUtilizationPredictions *)

\* calculateRevenuePotential: Math.round(gap * 0.01 * 800 * 30)
calculateRevenuePotential(equipment) ==
    LET utilizationGap ==
            Max(0, 85 - ToNumber(OrElse(equipment.utilization_rate, Num(0))))
        dailyRate == 800
    IN  RoundDiv(utilizationGap * dailyRate * 30, 100)

\* PredictUtilization without the lower clamp Math.max(0, ...)
MutPredictUtilizationUnclamped(item, random) ==
    LET currentUtilization == ToNumber(OrElse(item.utilization_rate, Num(0)))
        rentalFrequency == ToNumber(OrElse(item.rental_frequency, Num(0)))
        trend == IF rentalFrequency > 2 THEN "increasing" ELSE "stable"
        predictedUtilization ==
            Min(100 * RandomSteps,
                (currentUtilization + (IF trend = "increasing" THEN 10 ELSE -5))
                    * RandomSteps + 10 * random - 5 * RandomSteps)
    IN  [predicted_utilization |-> RoundDiv(predictedUtilization, RandomSteps),
         utilization_trend |-> trend,
         optimization_potential |-> Max(0, 85 - currentUtilization),
         revenue_potential |-> calculateRevenuePotential(item)] @@ item

\* PredictUtilization with optimization_potential taken from the prediction
MutPredictUtilization(item, random) ==
    LET currentUtilization == ToNumber(OrElse(item.utilization_rate, Num(0)))
        rentalFrequency == ToNumber(OrElse(item.rental_frequency, Num(0)))
        trend == IF rentalFrequency > 2 THEN "increasing" ELSE "stable"
        predictedUtilization ==
            Min(100 * RandomSteps,
                Max(0,
                    (currentUtilization + (IF trend = "increasing" THEN 10 ELSE -5))
                        * RandomSteps + 10 * random - 5 * RandomSteps))
    IN  [predicted_utilization |-> RoundDiv(predictedUtilization, RandomSteps),
         utilization_trend |-> trend,
         optimization_potential |->
             Max(0, 85 - RoundDiv(predictedUtilization, RandomSteps)),
         revenue_potential |-> calculateRevenuePotential(item)] @@ item

MutTrendShift(trend) == IF trend = "increasing" THEN 10 ELSE 5

\* (trend === 'increasing' ? 10 : -5)
TrendShift(trend) == IF trend = "increasing" THEN 10 ELSE -5

\* the callback of data.map in generateUtilizationPredictions
PredictUtilization(item, random) ==
    LET currentUtilization == ToNumber(OrElse(item.utilization_rate, Num(0)))
        rentalFrequency == ToNumber(OrElse(item.rental_frequency, Num(0)))
        trend == IF rentalFrequency > 2 THEN "increasing" ELSE "stable"
        predictedUtilization ==
            Min(100 * RandomSteps,
                Max(0,
                    (currentUtilization + TrendShift(trend))
                        * RandomSteps + 10 * random - 5 * RandomSteps))
    IN  [predicted_utilization |-> RoundDiv(predictedUtilization, RandomSteps),
         utilization_trend |-> trend,
         optimization_potential |-> Max(0, 85 - currentUtilization),
         revenue_potential |-> calculateRevenuePotential(item)] @@ item

generateUtilizationPredictions(data, randoms) ==
    [i \in DOMAIN data |-> PredictUtilization(data[i], randoms[i])]

-----------------------------------------------------------------------------
(* generateReturnDatePredictions *)
(* A date is a day number: rental_end_date_planned d is parsed to UTC       *)
(* midnight of day d.  setDate(getDate() + n) adds n days in the server's   *)
(* local time zone and toISOString() reads the UTC day back: when a         *)
(* daylight-saving step forward lies between the two local dates the UTC    *)
(* instant is 23:00 of the day before (springForward), otherwise it is the  *)
(* day d + n.                                                              *)

\* LateReturnProbability with (rental.credit_rating || 0)
MutLateReturnProbability(rental, random) ==
    LET creditRisk50 ==
            (10 - ToNumber(OrElse(rental.credit_rating, Num(0)))) * 5
        duration50 ==
            IF JsGreater(rental.rental_duration_planned, 30) THEN 10 ELSE 0
    IN  Min(90 * RandomSteps,
            Max(5 * RandomSteps,
                (creditRisk50 + duration50) * RandomSteps + 20 * random))

\* Math.min(90, Math.max(5, (creditRiskFactor + durationFactor) * 50
\*                          + Math.random() * 20)), in RandomSteps-ths
LateReturnProbability(rental, random) ==
    LET creditRisk50 ==
            (10 - ToNumber(OrElse(rental.credit_rating, Num(5)))) * 5
        duration50 ==
            IF JsGreater(rental.rental_duration_planned, 30) THEN 10 ELSE 0
    IN  Min(90 * RandomSteps,
            Max(5 * RandomSteps,
                (creditRisk50 + duration50) * RandomSteps + 20 * random))

MutPredictedDelay(lateReturnProbability) ==
    IF lateReturnProbability > 40 * RandomSteps
    THEN RoundDiv(lateReturnProbability, 10 * RandomSteps) ELSE 0

\* lateReturnProbability > 50 ? Math.round(lateReturnProbability / 10) : 0
PredictedDelay(lateReturnProbability) ==
    IF lateReturnProbability > 50 * RandomSteps
    THEN RoundDiv(lateReturnProbability, 10 * RandomSteps) ELSE 0

MutRiskLevel(lateReturnProbability) ==
    IF lateReturnProbability > 75 * RandomSteps THEN "High"
    ELSE IF lateReturnProbability > 40 * RandomSteps THEN "Medium" ELSE "Low"

\* lateReturnProbability > 70 ? 'High' : lateReturnProbability > 40 ?
\* 'Medium' : 'Low'
RiskLevel(lateReturnProbability) ==
    IF lateReturnProbability > 70 * RandomSteps THEN "High"
    ELSE IF lateReturnProbability > 40 * RandomSteps THEN "Medium" ELSE "Low"

\* the callback of data.map in generateReturnDatePredictions
PredictReturn(rental, random, springForward) ==
    LET lateReturnProbability == LateReturnProbability(rental, random)
        plannedDate == rental.rental_end_date_planned
        predictedDelay == PredictedDelay(lateReturnProbability)
        predictedReturnDate ==
            IF predictedDelay # 0 /\ springForward
            THEN plannedDate + predictedDelay - 1
            ELSE plannedDate + predictedDelay
    IN  [late_return_probability |-> RoundDiv(lateReturnProbability, RandomSteps),
         predicted_return_date |-> predictedReturnDate,
         predicted_delay_days |-> predictedDelay,
         risk_level |-> RiskLevel(lateReturnProbability)] @@ rental

\* env[i] = [random, springForward] is what the clock and Math.random()
\* give for data[i]
generateReturnDatePredictions(data, env) ==
    [i \in DOMAIN data |->
        PredictReturn(data[i], env[i].random, env[i].springForward)]

-----------------------------------------------------------------------------
(* generateRecommendations *)

\* insights.equipmentPerformance.filter(eq => eq.avg_utilization < 70)
LowUtilization(equipmentPerformance) ==
    SelectSeq(equipmentPerformance, LAMBDA eq : JsLess(eq.avg_utilization, 70))

\* insights.equipmentPerformance.filter(eq => eq.high_priority_maintenance > 0)
HighMaintenance(equipmentPerformance) ==
    SelectSeq(equipmentPerformance, LAMBDA eq : eq.high_priority_maintenance > 0)

\* insights.customerBehavior.find(cb => cb.customer_type === 'Corporate'),
\* as the sequence of the rows found first (empty when there is none)
FindCorporate(customerBehavior) ==
    LET found == SelectSeq(customerBehavior,
                           LAMBDA cb : cb.customer_type = "Corporate")
    IN  IF found = <<>> THEN <<>> ELSE <<Head(found)>>

MutHasRows(list) == Len(list) >= 0

\* lowUtilization.length > 0, highMaintenance.length > 0
HasRows(list) == Len(list) > 0

generateRecommendations(ins) ==
    LET hasEquipment == "equipmentPerformance" \in DOMAIN ins
        hasCustomers == "customerBehavior" \in DOMAIN ins
        lowUtilization ==
            IF hasEquipment THEN LowUtilization(ins.equipmentPerformance) ELSE <<>>
        highMaintenance ==
            IF hasEquipment THEN HighMaintenance(ins.equipmentPerformance) ELSE <<>>
        corporateCustomers ==
            IF hasCustomers THEN FindCorporate(ins.customerBehavior) ELSE <<>>
    IN  (IF HasRows(lowUtilization)
         THEN <<[type |-> "optimization", priority |-> "high",
                 title |-> "Improve Equipment Utilization",
                 description |-> "${n} equipment types have utilization below 70%. Consider dynamic pricing or targeted marketing.",
                 n |-> Len(lowUtilization),
                 impact |-> "revenue_increase"]>>
         ELSE <<>>) \o
        (IF HasRows(highMaintenance)
         THEN <<[type |-> "maintenance", priority |-> "critical",
                 title |-> "Urgent Maintenance Required",
                 description |-> "Schedule immediate maintenance for high-priority equipment to avoid breakdowns.",
                 impact |-> "cost_avoidance"]>>
         ELSE <<>>) \o
        (IF corporateCustomers # <<>>
               /\ JsGreater(corporateCustomers[1].avg_overdue_days, 2)
         THEN <<[type |-> "customer_management", priority |-> "medium",
                 title |-> "Improve Corporate Customer Relations",
                 description |-> "Corporate customers are averaging late returns. Consider loyalty programs or stricter contracts.",
                 impact |-> "customer_satisfaction"]>>
         ELSE <<>>)

-----------------------------------------------------------------------------
(* parseInt(period), a string being the sequence of its characters *)

DigitValue(c) ==
    CASE c = "0" -> 0 [] c = "1" -> 1 [] c = "2" -> 2 [] c = "3" -> 3
      [] c = "4" -> 4 [] c = "5" -> 5 [] c = "6" -> 6 [] c = "7" -> 7
      [] c = "8" -> 8 [] c = "9" -> 9 [] OTHER -> -1

RECURSIVE LeadingDigits(_, _)
\* the value of the longest prefix of digits of s, after acc; <<>> when
\* neither acc nor s starts with a digit
LeadingDigits(s, acc) ==
    IF s = <<>> \/ DigitValue(Head(s)) < 0 THEN acc
    ELSE LeadingDigits(Tail(s),
                       <<(IF acc = <<>> THEN 0 ELSE acc[1] * 10) + DigitValue(Head(s))>>)

RECURSIVE parseInt(_)
parseInt(s) ==
    IF s # <<>> /\ Head(s) = " " THEN parseInt(Tail(s))
    ELSE LET negative == s # <<>> /\ Head(s) = "-"
             signed == s # <<>> /\ Head(s) \in {"-", "+"}
             digits == LeadingDigits(IF signed THEN Tail(s) ELSE s, <<>>)
         IN  IF digits = <<>> THEN NaN
             ELSE Num(IF negative THEN 0 - digits[1] ELSE digits[1])

\* const { period = '30' } = req.query; query is <<>> when it has no period
PeriodOf(query) == IF query = <<>> THEN <<"3", "0">> ELSE query[1]

-----------------------------------------------------------------------------
(* What the store and the environment hand to the handlers *)

Endpoints == {"demand", "maintenance", "utilization", "return-dates", "insights"}

Reqs == 1 .. MaxRequests

\* a slot that carries no write request
NoCall == [route |-> "none", pc |-> "none", id |-> "", equipment_id |-> ""]

Randoms == 0 .. RandomSteps - 1

Months == 1 .. 12

\* the ?period= values sent to /demand: absent, "7", "abc"
PeriodParams == {<<>>, << <<"7">> >>, << <<"a", "b", "c">> >>}

DemandResults ==
    {<<>>, <<[equipment_type |-> "Excavator", historical_rentals |-> 4]>>}

SampleItem ==
    [equipment_id |-> "EQ004", equipment_type |-> "Bulldozer",
     overall_health_score |-> Num(66), engine_health |-> Num(60),
     hydraulic_health |-> Num(70), transmission_health |-> Num(68),
     maintenance_priority |-> Num(4), total_runtime_hours |-> Num(3246),
     utilization_rate |-> Num(88)]

MaintenanceResults == {<<>>, <<SampleItem>>}

UtilizationResults ==
    {<<>>, <<[equipment_id |-> "EQ001", utilization_rate |-> Num(89),
              rental_frequency |-> Num(3)]>>}

ReturnDateResults ==
    {<<>>, <<[rental_id |-> "RNT001", credit_rating |-> Num(2),
              rental_duration_planned |-> Num(45),
              rental_end_date_planned |-> 19900]>>}

EquipmentPerformanceResults ==
    {<<>>, <<[equipment_type |-> "Excavator", total_equipment |-> 2,
              avg_utilization |-> Num(65), avg_health_score |-> Num(80),
              high_priority_maintenance |-> 1]>>}

CustomerBehaviorResults ==
    {<<>>, <<[customer_type |-> "Corporate", customer_count |-> 1,
              avg_rental_duration |-> Num(10), avg_overdue_days |-> Num(3),
              total_revenue |-> Num(1000)]>>}

SeasonalTrendsResults ==
    {<<[month |-> "03", equipment_type |-> "Excavator", rental_count |-> 2,
        avg_duration |-> Num(10)]>>}

\* the rows the k-th query of /insights can return
InsightsResults(k) ==
    CASE k = 0 -> EquipmentPerformanceResults
      [] k = 1 -> CustomerBehaviorResults
      [] k = 2 -> SeasonalTrendsResults

\* the key of `insights` the k-th callback of /insights assigns
InsightsKey(k) ==
    CASE k = 0 -> "equipmentPerformance"
      [] k = 1 -> "customerBehavior"
      [] k = 2 -> "seasonalTrends"

\* the db.all calls a handler makes, by position
QueriesOf(endpoint) == IF endpoint = "insights" THEN {0, 1, 2} ELSE {0}

DatabaseError == [error |-> "Database error"]

\* a TIMESTAMP column that has been set (CURRENT_TIMESTAMP or a seed value)
Timestamp == [t |-> "timestamp", v |-> 0]

\* a string of the given length
Text(length) == [t |-> "string", v |-> length]

\* the tables as insertSeedData fills them.  Of equipment, rentals, alerts
\* and anomalies the rows are kept by primary key, with the columns the
\* write handlers set (alert_id and anomaly_id are AUTOINCREMENT); of the
\* other tables the keys only.
SeedStore ==
    [equipment |->
        ("EQ001" :> [status |-> "Rented"]) @@
        ("EQ002" :> [status |-> "Available"]) @@
        ("EQ003" :> [status |-> "Rented"]) @@
        ("EQ004" :> [status |-> "Maintenance"]) @@
        ("EQ005" :> [status |-> "Available"]) @@
        ("EQ006" :> [status |-> "Rented"]),
     customers |-> {"CU001", "CU002", "CU003", "CU004", "CU005"},
     sites |-> {"ST001", "ST002", "ST003", "ST004", "ST005"},
     rentals |->
        ("RN001" :> [equipment_id |-> "EQ001", rental_status |-> "Active"]) @@
        ("RN002" :> [equipment_id |-> "EQ003", rental_status |-> "Active"]) @@
        ("RN003" :> [equipment_id |-> "EQ006", rental_status |-> "Overdue"]) @@
        ("RN004" :> [equipment_id |-> "EQ002", rental_status |-> "Returned"]) @@
        ("RN005" :> [equipment_id |-> "EQ005", rental_status |-> "Active"]),
     equipment_usage |-> {1, 2, 3, 4},
     maintenance_records |-> {1, 2, 3, 4},
     alerts |->
        [alert_id \in {1, 2, 3, 4} |->
            [status |-> "Active", acknowledged_at |-> Null, resolved_at |-> Null]],
     anomalies |->
        (1 :> [status |-> "Open", resolution_notes |-> Null,
               resolved_at |-> Null]) @@
        (2 :> [status |-> "Investigating", resolution_notes |-> Null,
               resolved_at |-> Null]) @@
        (3 :> [status |-> "Resolved", resolution_notes |-> Text(1),
               resolved_at |-> Timestamp]),
     equipment_health |-> {1, 2, 3, 4, 5, 6}]

MutRunSelect(db) == [db EXCEPT !.rentals = EmptyObject]

\* db.all(query, ...) of the predictions router: every query is one SELECT
\* statement with bound parameters, which leaves every table as it is
RunSelect(db) == db

-----------------------------------------------------------------------------
(* The request handlers *)

HandlerInit ==
    /\ kind = [r \in Reqs |-> "none"]
    /\ period = [r \in Reqs |-> <<>>]
    /\ pending = [r \in Reqs |-> {}]
    /\ completed = [r \in Reqs |-> 0]
    /\ insights = [r \in Reqs |-> EmptyObject]
    /\ responses = [r \in Reqs |-> <<>>]
    /\ sendCalls = [r \in Reqs |-> 0]
    /\ derivedCalls = [r \in Reqs |-> 0]
    /\ queriesIssued = [r \in Reqs |-> 0]
    /\ crashed = FALSE
    /\ store = SeedStore
    /\ calls = [r \in Reqs |-> NoCall]

Init ==
    /\ HandlerInit
    /\ args = EmptyObject
    /\ result = <<>>

\* res.status(status).json(body) / res.json(body): the first call answers the
\* request; a call on an answered request throws ERR_HTTP_HEADERS_SENT out of
\* the database callback, which nothing catches
Send(r, status, body) ==
    /\ sendCalls' = [sendCalls EXCEPT ![r] = @ + 1]
    /\ IF responses[r] = <<>>
       THEN /\ responses' = [responses EXCEPT
                                ![r] = <<[status |-> status, body |-> body]>>]
            /\ crashed' = crashed
       ELSE /\ responses' = responses
            /\ crashed' = TRUE

\* a request arrives and its handler runs up to its db.all calls; the
\* equipment_type parameter of /demand only narrows the rows the query returns
Receive(r, endpoint, query) ==
    /\ ~crashed
    /\ kind[r] = "none"
    /\ \A q \in Reqs : q < r => kind[q] # "none"
    /\ kind' = [kind EXCEPT ![r] = endpoint]
    /\ period' = [period EXCEPT ![r] = query]
    /\ pending' = [pending EXCEPT ![r] = QueriesOf(endpoint)]
    /\ queriesIssued' = [queriesIssued EXCEPT ![r] = Cardinality(QueriesOf(endpoint))]
    /\ UNCHANGED <<completed, insights, responses, sendCalls, derivedCalls,
                   crashed, store, calls, args, result>>

\* the query of a one-query handler ran and its callback is called: the
\* query is no longer pending
Settle(r) ==
    /\ ~crashed
    /\ pending[r] = {0}
    /\ pending' = [pending EXCEPT ![r] = {}]
    /\ store' = RunSelect(store)
    /\ UNCHANGED <<kind, period, completed, insights, queriesIssued, calls,
                   args, result>>

MutFail(r) ==
    /\ Send(r, 500, DatabaseError)
    /\ derivedCalls' = [derivedCalls EXCEPT ![r] = @ + 1]

\* if (err) return res.status(500).json({ error: 'Database error' })
Fail(r) ==
    /\ Send(r, 500, DatabaseError)
    /\ UNCHANGED derivedCalls

\* res.json(predictions), predictions being the derived-metrics function's value
Succeed(r, predictions) ==
    /\ derivedCalls' = [derivedCalls EXCEPT ![r] = @ + 1]
    /\ Send(r, 200, predictions)

DemandCallback(r) ==
    /\ kind[r] = "demand"
    /\ Settle(r)
    /\ \/ Fail(r)
       \/ \E rows \in DemandResults, currentMonth \in {1, 5} :
            Succeed(r, generateDemandPredictions(
                           rows, parseInt(PeriodOf(period[r])), currentMonth))

MaintenanceCallback(r) ==
    /\ kind[r] = "maintenance"
    /\ Settle(r)
    /\ \/ Fail(r)
       \/ \E rows \in MaintenanceResults :
            \E randoms \in [DOMAIN rows -> {0, RandomSteps - 1}] :
                Succeed(r, enhanceMaintenancePredictions(rows, randoms))

UtilizationCallback(r) ==
    /\ kind[r] = "utilization"
    /\ Settle(r)
    /\ \/ Fail(r)
       \/ \E rows \in UtilizationResults :
            \E randoms \in [DOMAIN rows -> {0, RandomSteps - 1}] :
                Succeed(r, generateUtilizationPredictions(rows, randoms))

ReturnDatesCallback(r) ==
    /\ kind[r] = "return-dates"
    /\ Settle(r)
    /\ \/ Fail(r)
       \/ \E rows \in ReturnDateResults :
            \E env \in [DOMAIN rows -> [random : {0, RandomSteps - 1},
                                        springForward : BOOLEAN]] :
                Succeed(r, generateReturnDatePredictions(rows, env))

MutCompletionReached(count) == count >= 2

\* checkCompletion: if (completed === 3)
CompletionReached(count) == count = 3

MutCompletedPlusPlus(r) == [q \in Reqs |-> completed[q] + 1]

\* completed++ on the `let completed` of the closure of request r
CompletedPlusPlus(r) == [completed EXCEPT ![r] = @ + 1]

\* the callback of the k-th query of /insights, checkCompletion included
InsightsCallback(r, k) ==
    /\ ~crashed
    /\ kind[r] = "insights"
    /\ k \in pending[r]
    /\ pending' = [pending EXCEPT ![r] = @ \ {k}]
    /\ store' = RunSelect(store)
    /\ UNCHANGED <<kind, period, queriesIssued, calls, args, result>>
    /\ \/ /\ Fail(r)
          /\ UNCHANGED <<completed, insights>>
       \/ \E rows \in InsightsResults(k) :
            LET assigned == Put(insights[r], InsightsKey(k), rows)
                full == Put(assigned, "recommendations",
                            generateRecommendations(assigned))
            IN  /\ completed' = CompletedPlusPlus(r)
                /\ IF CompletionReached(completed[r] + 1)
                   THEN /\ insights' = [insights EXCEPT ![r] = full]
                        /\ Succeed(r, full)
                   ELSE /\ insights' = [insights EXCEPT ![r] = assigned]
                        /\ UNCHANGED <<responses, sendCalls, derivedCalls, crashed>>

Next ==
    \/ \E r \in Reqs, endpoint \in Endpoints :
         \E query \in (IF endpoint = "demand" THEN PeriodParams ELSE {<<>>}) :
            Receive(r, endpoint, query)
    \/ \E r \in Reqs : DemandCallback(r)
    \/ \E r \in Reqs : MaintenanceCallback(r)
    \/ \E r \in Reqs : UtilizationCallback(r)
    \/ \E r \in Reqs : ReturnDatesCallback(r)
    \/ \E r \in Reqs, k \in {0, 1, 2} : InsightsCallback(r, k)

Spec == Init /\ [][Next]_vars

-----------------------------------------------------------------------------
(* Direct calls of the derived-metrics functions: the arguments are drawn  *)
(* at the start, the one step is the call.                                 *)

EquipmentTypes ==
    {"Excavator", "Bulldozer", "Wheel Loader", "Motor Grader",
     "Articulated Truck", "Crane"}

InitSeasonal ==
    /\ HandlerInit
    /\ args \in [equipmentType : EquipmentTypes, month : Months]
    /\ result = <<>>

CallSeasonal ==
    /\ result = <<>>
    /\ result' = <<getSeasonalMultiplier(args.equipmentType, args.month)>>
    /\ UNCHANGED <<handlerVars, args>>

SpecSeasonal == InitSeasonal /\ [][CallSeasonal]_vars

\* grouped rows of the /demand query: COUNT(r.rental_id) per (type, zone, month)
DemandRows ==
    [equipment_type : {"Excavator", "Motor Grader"}, historical_rentals : {1, 4}]

\* ORDER BY historical_rentals DESC
SortedByRentals(rows) ==
    \A i \in 1 .. Len(rows) - 1 :
        rows[i].historical_rentals >= rows[i + 1].historical_rentals

DemandInputs ==
    UNION {{rows \in [1 .. n -> DemandRows] : SortedByRentals(rows)} : n \in 0 .. MaxRows}

InitDemand ==
    /\ HandlerInit
    /\ args \in [historicalData : DemandInputs,
                 days : {NaN, Num(7), Num(30)},
                 currentMonth : {1, 5, 9}]
    /\ result = <<>>

CallDemand ==
    /\ result = <<>>
    /\ result' = <<generateDemandPredictions(
                       args.historicalData, args.days, args.currentMonth)>>
    /\ UNCHANGED <<handlerVars, args>>

SpecDemand == InitDemand /\ [][CallDemand]_vars

\* WHERE h.overall_health_score < 90 OR h.maintenance_priority >= 3
NeedsAttention(item) ==
    \/ item.overall_health_score.t = "number" /\ item.overall_health_score.v < 90
    \/ item.maintenance_priority.t = "number" /\ item.maintenance_priority.v >= 3

\* rows of the /maintenance query; the columns are unconstrained numerics
MaintenanceItems ==
    {item \in [equipment_id : {"EQ001"},
               equipment_type : {"Bulldozer", "Crane"},
               overall_health_score : {Null, Num(0), Num(66), Num(100), Num(150)},
               utilization_rate : {Null, Num(0), Num(88), Num(100)},
               total_runtime_hours : {Null, Num(0), Num(10000)},
               maintenance_priority :
                   {Null} \cup {Num(p) : p \in {-1, 0, 1, 2, 3, 4, 5, 6}},
               engine_health : {Null, Num(79), Num(80)},
               hydraulic_health : {Num(74), Num(75)},
               transmission_health : {Num(69), Num(70)}] :
        NeedsAttention(item)}

InitMaintenance ==
    /\ HandlerInit
    /\ args \in [data : {<<item>> : item \in MaintenanceItems},
                 randoms : {<<k>> : k \in Randoms}]
    /\ result = <<>>

CallMaintenance ==
    /\ result = <<>>
    /\ result' = <<enhanceMaintenancePredictions(args.data, args.randoms)>>
    /\ UNCHANGED <<handlerVars, args>>

SpecMaintenance == InitMaintenance /\ [][CallMaintenance]_vars

\* two invocations of the demand estimator with the same rows and window:
\* months[n] is what new Date().getMonth() + 1 gives the n-th of them
InitDemandTwice ==
    /\ HandlerInit
    /\ args \in [historicalData : {rows \in DemandInputs : Len(rows) <= 2},
                 days : {NaN, Num(7), Num(30)},
                 months : Months \X Months]
    /\ result = <<>>

CallDemandAgain ==
    /\ Len(result) < 2
    /\ result' = Append(result,
                        generateDemandPredictions(args.historicalData, args.days,
                                                  args.months[Len(result) + 1]))
    /\ UNCHANGED <<handlerVars, args>>

SpecDemandTwice == InitDemandTwice /\ [][CallDemandAgain]_vars

\* rows of the /utilization query: utilization_rate is NULL for equipment
\* without a health row (LEFT JOIN)
UtilizationItems ==
    [equipment_id : {"EQ001"},
     equipment_type : {"Excavator", "Crane"},
     utilization_rate :
         {Null, Num(0), Num(3), Num(50), Num(85), Num(89), Num(97), Num(100), Num(120)},
     rental_frequency : {Null, Num(0), Num(1), Num(2), Num(3), Num(5)}]

InitUtilization ==
    /\ HandlerInit
    /\ args \in [data : {<<item>> : item \in UtilizationItems},
                 randoms : {<<k>> : k \in Randoms}]
    /\ result = <<>>

CallUtilization ==
    /\ result = <<>>
    /\ result' = <<generateUtilizationPredictions(args.data, args.randoms)>>
    /\ UNCHANGED <<handlerVars, args>>

SpecUtilization == InitUtilization /\ [][CallUtilization]_vars

\* rows of the /return-dates query; credit_rating is a nullable INTEGER
\* column without a CHECK (0..10 is the scale the client shows)
ReturnRentals ==
    [rental_id : {"RNT001"},
     credit_rating : {Null} \cup {Num(rating) : rating \in {-7} \cup 0 .. 10},
     rental_duration_planned : {Null, Num(10), Num(30), Num(31), Num(45)},
     rental_end_date_planned : {19900}]

InitReturnDates ==
    /\ HandlerInit
    /\ args \in [data : {<<rental>> : rental \in ReturnRentals},
                 env : {<<e>> : e \in [random : Randoms, springForward : BOOLEAN]}]
    /\ result = <<>>

CallReturnDates ==
    /\ result = <<>>
    /\ result' = <<generateReturnDatePredictions(args.data, args.env)>>
    /\ UNCHANGED <<handlerVars, args>>

SpecReturnDates == InitReturnDates /\ [][CallReturnDates]_vars

\* rows of the /maintenance query for the repeated calls
RepeatedMaintenanceItems ==
    {[SampleItem EXCEPT !.overall_health_score = health,
                        !.maintenance_priority = priority,
                        !.engine_health = engine] :
        health \in {Null, Num(66), Num(100)},
        priority \in {Null, Num(3), Num(4)},
        engine \in {Num(60), Num(85)}}

\* two calls of one scorer on the same rows: env[n] is what Math.random()
\* and the clock give the n-th call for the row
InitScorersTwice ==
    /\ HandlerInit
    /\ result = <<>>
    /\ \/ args \in [scorer : {"maintenance"},
                     data : {<<item>> : item \in RepeatedMaintenanceItems},
                     env : {<<a, b>> : a \in Randoms, b \in Randoms}]
       \/ args \in [scorer : {"utilization"},
                     data : {<<item>> : item \in UtilizationItems},
                     env : {<<a, b>> : a \in Randoms, b \in Randoms}]
       \/ args \in [scorer : {"return-dates"},
                     data : {<<rental>> : rental \in ReturnRentals},
                     env : {<<a, b>> :
                               a \in [random : Randoms, springForward : BOOLEAN],
                               b \in [random : Randoms, springForward : BOOLEAN]}]

ScoreMaintenanceAgain ==
    /\ args.scorer = "maintenance"
    /\ Len(result) < 2
    /\ result' = Append(result,
                        enhanceMaintenancePredictions(
                            args.data, <<args.env[Len(result) + 1]>>))
    /\ UNCHANGED <<handlerVars, args>>

ScoreUtilizationAgain ==
    /\ args.scorer = "utilization"
    /\ Len(result) < 2
    /\ result' = Append(result,
                        generateUtilizationPredictions(
                            args.data, <<args.env[Len(result) + 1]>>))
    /\ UNCHANGED <<handlerVars, args>>

ScoreReturnDatesAgain ==
    /\ args.scorer = "return-dates"
    /\ Len(result) < 2
    /\ result' = Append(result,
                        generateReturnDatePredictions(
                            args.data, <<args.env[Len(result) + 1]>>))
    /\ UNCHANGED <<handlerVars, args>>

SpecScorersTwice ==
    InitScorersTwice
        /\ [][ScoreMaintenanceAgain \/ ScoreUtilizationAgain
                   \/ ScoreReturnDatesAgain]_vars

\* rows of the first /insights query: one per equipment type (GROUP BY);
\* AVG over a type without health rows (LEFT JOIN) is NULL
EquipmentPerformanceRows ==
    [equipment_type : {"Excavator", "Crane"},
     avg_utilization : {Null, Num(65), Num(70), Num(75)},
     high_priority_maintenance : {0, 1}]

\* rows of the second /insights query: one per customer type (GROUP BY)
CustomerBehaviorRows ==
    [customer_type : {"Corporate", "Government"},
     avg_overdue_days : {Null, Num(2), Num(3)}]

\* the values a key of `insights` can hold: the sequences of rows in which
\* no two rows have the same value of the grouping column
GroupedBy(rows, column) ==
    {<<>>} \cup {<<a>> : a \in rows}
           \cup {pair \in {<<a, b>> : a \in rows, b \in rows} :
                    pair[1][column] # pair[2][column]}

\* the `insights` objects handed to generateRecommendations: each key is
\* absent or holds the rows of its query
RecommendationInputs ==
    {equipment @@ customers @@ trends :
        equipment \in {EmptyObject} \cup
            {"equipmentPerformance" :> rows :
                rows \in GroupedBy(EquipmentPerformanceRows, "equipment_type")},
        customers \in {EmptyObject} \cup
            {"customerBehavior" :> rows :
                rows \in GroupedBy(CustomerBehaviorRows, "customer_type")},
        trends \in {EmptyObject} \cup
            {"seasonalTrends" :> rows : rows \in {<<>>} \cup SeasonalTrendsResults}}

InitRecommendations ==
    /\ HandlerInit
    /\ args \in RecommendationInputs
    /\ result = <<>>

CallRecommendations ==
    /\ result = <<>>
    /\ result' = <<generateRecommendations(args)>>
    /\ UNCHANGED <<handlerVars, args>>

SpecRecommendations == InitRecommendations /\ [][CallRecommendations]_vars

-----------------------------------------------------------------------------
(* The rentals router: POST /rentals and PUT /rentals/:id/return.  Every    *)
(* db.run / db.get is one step; the statements of different requests        *)
(* interleave.                                                              *)

\* the rental_id values a POST /rentals body carries: one of a seeded rental,
\* one that is new
PostRentalIds == {"RN001", "RN006"}

\* the equipment_id values of a POST /rentals body: a rented item, an
\* available one, one the equipment table does not hold
PostEquipmentIds == {"EQ001", "EQ002", "EQ999"}

\* the :id values of PUT /rentals/:id/return
ReturnIds == {"RN001", "RN006", "RN999"}

\* slot r carries no request whose statements are still to run
Idle(r) == calls[r].pc \in {"none", "done"}

\* INSERT INTO rentals (...) VALUES (..., 'Active'): refused for a rental_id
\* the table holds (PRIMARY KEY) and for an equipment_id the equipment table
\* does not hold (FOREIGN KEY, with PRAGMA foreign_keys = ON)
InsertRentalFails(db, rental_id, equipment_id) ==
    \/ rental_id \in DOMAIN db.rentals
    \/ equipment_id \notin DOMAIN db.equipment

InsertRental(db, rental_id, equipment_id) ==
    [db EXCEPT !.rentals =
        (rental_id :> [equipment_id |-> equipment_id,
                       rental_status |-> "Active"]) @@ @]

\* UPDATE equipment SET status = ? WHERE equipment_id = ?
UpdateEquipmentStatus(db, equipment_id, status) ==
    IF equipment_id \in DOMAIN db.equipment
    THEN [db EXCEPT !.equipment[equipment_id].status = status]
    ELSE db

\* UPDATE rentals SET ..., rental_status = 'Returned' WHERE rental_id = ?
UpdateRentalReturned(db, rental_id) ==
    IF rental_id \in DOMAIN db.rentals
    THEN [db EXCEPT !.rentals[rental_id].rental_status = "Returned"]
    ELSE db

InitRentals ==
    /\ HandlerInit
    /\ args = EmptyObject
    /\ result = <<>>

\* POST /rentals arrives: the handler queues its INSERT
PostRental(r, rental_id, equipment_id) ==
    /\ Idle(r)
    /\ calls' = [calls EXCEPT ![r] =
                    [route |-> "post", pc |-> "insert", id |-> rental_id,
                     equipment_id |-> equipment_id]]
    /\ responses' = [responses EXCEPT ![r] = <<>>]
    /\ UNCHANGED <<kind, period, pending, completed, insights, sendCalls,
                   derivedCalls, queriesIssued, crashed, store, args, result>>

\* the INSERT ran and its callback is called: on an error the request is
\* answered 500; otherwise the UPDATE of the equipment is queued and the
\* request is answered 201
PostRentalInserted(r) ==
    /\ calls[r].route = "post"
    /\ calls[r].pc = "insert"
    /\ IF InsertRentalFails(store, calls[r].id, calls[r].equipment_id)
       THEN /\ store' = store
            /\ calls' = [calls EXCEPT ![r].pc = "done"]
            /\ responses' = [responses EXCEPT
                    ![r] = <<[status |-> 500, body |-> DatabaseError]>>]
       ELSE /\ store' = InsertRental(store, calls[r].id, calls[r].equipment_id)
            /\ calls' = [calls EXCEPT ![r].pc = "update-equipment"]
            /\ responses' = [responses EXCEPT
                    ![r] = <<[status |-> 201,
                             body |-> [message |-> "Rental created successfully"]]>>]
    /\ UNCHANGED <<kind, period, pending, completed, insights, sendCalls,
                   derivedCalls, queriesIssued, crashed, args, result>>

\* the UPDATE of the equipment that the POST queued ran
PostRentalUpdated(r) ==
    /\ calls[r].route = "post"
    /\ calls[r].pc = "update-equipment"
    /\ store' = UpdateEquipmentStatus(store, calls[r].equipment_id, "Rented")
    /\ calls' = [calls EXCEPT ![r].pc = "done"]
    /\ UNCHANGED <<kind, period, pending, completed, insights, responses,
                   sendCalls, derivedCalls, queriesIssued, crashed, args, result>>

\* PUT /rentals/:id/return arrives: the handler queues its SELECT
ReturnRental(r, id) ==
    /\ Idle(r)
    /\ calls' = [calls EXCEPT ![r] =
                    [route |-> "return", pc |-> "select", id |-> id,
                     equipment_id |-> ""]]
    /\ responses' = [responses EXCEPT ![r] = <<>>]
    /\ UNCHANGED <<kind, period, pending, completed, insights, sendCalls,
                   derivedCalls, queriesIssued, crashed, store, args, result>>

\* the SELECT ran: without a row the request is answered 404; with one the
\* callback keeps the row (its equipment_id) and queues the UPDATE of the rental
ReturnRentalSelected(r) ==
    /\ calls[r].route = "return"
    /\ calls[r].pc = "select"
    /\ IF calls[r].id \notin DOMAIN store.rentals
       THEN /\ calls' = [calls EXCEPT ![r].pc = "done"]
            /\ responses' = [responses EXCEPT
                    ![r] = <<[status |-> 404,
                             body |-> [error |-> "Rental not found"]]>>]
       ELSE /\ calls' = [calls EXCEPT
                    ![r].pc = "update-rental",
                    ![r].equipment_id = store.rentals[calls[r].id].equipment_id]
            /\ responses' = responses
    /\ UNCHANGED <<kind, period, pending, completed, insights, sendCalls,
                   derivedCalls, queriesIssued, crashed, store, args, result>>

\* the UPDATE of the rental ran: the UPDATE of the equipment is queued and
\* the request is answered 200
ReturnRentalUpdated(r) ==
    /\ calls[r].route = "return"
    /\ calls[r].pc = "update-rental"
    /\ store' = UpdateRentalReturned(store, calls[r].id)
    /\ calls' = [calls EXCEPT ![r].pc = "update-equipment"]
    /\ responses' = [responses EXCEPT
            ![r] = <<[status |-> 200,
                     body |-> [message |-> "Rental returned successfully"]]>>]
    /\ UNCHANGED <<kind, period, pending, completed, insights, sendCalls,
                   derivedCalls, queriesIssued, crashed, args, result>>

\* the UPDATE of the equipment that the return queued ran
ReturnEquipmentUpdated(r) ==
    /\ calls[r].route = "return"
    /\ calls[r].pc = "update-equipment"
    /\ store' = UpdateEquipmentStatus(store, calls[r].equipment_id, "Available")
    /\ calls' = [calls EXCEPT ![r].pc = "done"]
    /\ UNCHANGED <<kind, period, pending, completed, insights, responses,
                   sendCalls, derivedCalls, queriesIssued, crashed, args, result>>

NextRentals ==
    \E r \in Reqs :
        \/ \E rental_id \in PostRentalIds, equipment_id \in PostEquipmentIds :
                PostRental(r, rental_id, equipment_id)
        \/ PostRentalInserted(r)
        \/ PostRentalUpdated(r)
        \/ \E id \in ReturnIds : ReturnRental(r, id)
        \/ ReturnRentalSelected(r)
        \/ ReturnRentalUpdated(r)
        \/ ReturnEquipmentUpdated(r)

SpecRentals == InitRentals /\ [][NextRentals]_vars

-----------------------------------------------------------------------------
(* The alerts router: POST /alerts and PUT /alerts/:id/acknowledge,         *)
(* /resolve, /dismiss.  Each handler runs one statement and answers in its  *)
(* callback; args holds the request of the last step, result its response.  *)

\* the handlers of this section touch the store only
routerVars == <<kind, period, pending, completed, insights, responses,
                sendCalls, derivedCalls, queriesIssued, crashed, calls>>

\* the id of the last row of the table that the seed data holds
LastSeeded(table) == Cardinality(DOMAIN SeedStore[table])

\* the :id values of the PUT requests: the last seeded row, the rows that
\* POST can create, and one id past them that no row ever gets
PutIds(table) == LastSeeded(table) .. LastSeeded(table) + MaxCreated + 1

\* the equipment_id of a POST body: one the equipment table holds, one it
\* does not (refused by the FOREIGN KEY)
BodyEquipmentIds == {"EQ001", "EQ999"}

\* this.lastID of an AUTOINCREMENT table from which no row is deleted
NextId(rows) == Cardinality(DOMAIN rows) + 1

\* INSERT INTO alerts (..., status) VALUES (..., 'Active')
InsertAlert(db) ==
    [db EXCEPT !.alerts =
        @ @@ (NextId(@) :> [status |-> "Active", acknowledged_at |-> Null,
                            resolved_at |-> Null])]

\* UPDATE alerts SET status = 'Acknowledged',
\*     acknowledged_at = CURRENT_TIMESTAMP WHERE alert_id = ?
AcknowledgeAlert(db, id) ==
    [db EXCEPT !.alerts[id] =
        [@ EXCEPT !.status = "Acknowledged", !.acknowledged_at = Timestamp]]

MutResolveAlert(db, id) ==
    [db EXCEPT !.alerts[id] = [@ EXCEPT !.status = "Resolved"]]

\* UPDATE alerts SET status = 'Resolved',
\*     resolved_at = CURRENT_TIMESTAMP WHERE alert_id = ?
ResolveAlert(db, id) ==
    [db EXCEPT !.alerts[id] =
        [@ EXCEPT !.status = "Resolved", !.resolved_at = Timestamp]]

\* UPDATE alerts SET status = 'Dismissed' WHERE alert_id = ?
DismissAlert(db, id) ==
    [db EXCEPT !.alerts[id] = [@ EXCEPT !.status = "Dismissed"]]

\* the UPDATE of a PUT handler
UpdateAlert(db, route, id) ==
    CASE route = "acknowledge" -> AcknowledgeAlert(db, id)
      [] route = "resolve" -> ResolveAlert(db, id)
      [] route = "dismiss" -> DismissAlert(db, id)

AlertMessage(route) ==
    CASE route = "acknowledge" -> "Alert acknowledged successfully"
      [] route = "resolve" -> "Alert resolved successfully"
      [] route = "dismiss" -> "Alert dismissed successfully"

InitAlerts ==
    /\ HandlerInit
    /\ args = EmptyObject
    /\ result = <<>>

\* POST /alerts: err answers 500, otherwise the row is there and the
\* request is answered 201 with its id.  err is a constraint the INSERT
\* violates or a failure of the database.
PostAlert(equipment_id, fails) ==
    /\ NextId(store.alerts) <= LastSeeded("alerts") + MaxCreated
    /\ args' = [route |-> "post", id |-> 0, equipment_id |-> equipment_id,
                fails |-> fails]
    /\ IF fails \/ equipment_id \notin DOMAIN store.equipment
       THEN /\ store' = store
            /\ result' = <<[status |-> 500, body |-> DatabaseError]>>
       ELSE /\ store' = InsertAlert(store)
            /\ result' = <<[status |-> 201,
                            body |-> [message |-> "Alert created successfully",
                                      id |-> NextId(store.alerts)]]>>
    /\ UNCHANGED routerVars

\* PUT /alerts/:id/acknowledge, /resolve or /dismiss: err answers 500, an
\* UPDATE that changed no row (this.changes === 0) answers 404, otherwise
\* the request is answered 200
PutAlert(route, id, fails) ==
    /\ args' = [route |-> route, id |-> id, equipment_id |-> "",
                fails |-> fails]
    /\ IF fails
       THEN /\ store' = store
            /\ result' = <<[status |-> 500, body |-> DatabaseError]>>
       ELSE IF id \notin DOMAIN store.alerts
       THEN /\ store' = store
            /\ result' = <<[status |-> 404,
                            body |-> [error |-> "Alert not found"]]>>
       ELSE /\ store' = UpdateAlert(store, route, id)
            /\ result' = <<[status |-> 200,
                            body |-> [message |-> AlertMessage(route)]]>>
    /\ UNCHANGED routerVars

NextAlerts ==
    \/ \E equipment_id \in BodyEquipmentIds, fails \in BOOLEAN :
            PostAlert(equipment_id, fails)
    \/ \E route \in {"acknowledge", "resolve", "dismiss"}, id \in PutIds("alerts"),
           fails \in BOOLEAN :
            PutAlert(route, id, fails)

SpecAlerts == InitAlerts /\ [][NextAlerts]_vars

-----------------------------------------------------------------------------
(* The anomalies router: POST /anomalies and PUT /anomalies/:id/status *)

\* the status values of a PUT body
BodyStatuses == {"Open", "Investigating", "Resolved"}

\* the resolution_notes of a PUT body: absent, the empty string, a text
BodyNotes == {Undefined, Text(0), Text(1)}

\* a string that is truthy: it is not empty
NonEmpty(x) == x.t = "string" /\ x.v # 0

\* INSERT INTO anomalies (..., status) VALUES (..., 'Open')
InsertAnomaly(db) ==
    [db EXCEPT !.anomalies =
        @ @@ (NextId(@) :> [status |-> "Open", resolution_notes |-> Null,
                            resolved_at |-> Null])]

\* UPDATE anomalies SET status = ? WHERE anomaly_id = ?, with
\* ", resolution_notes = ?, resolved_at = CURRENT_TIMESTAMP" added when
\* status === 'Resolved' && resolution_notes
UpdateAnomaly(db, id, status, resolution_notes) ==
    IF status = "Resolved" /\ NonEmpty(resolution_notes)
    THEN [db EXCEPT !.anomalies[id] =
            [status |-> status, resolution_notes |-> resolution_notes,
             resolved_at |-> Timestamp]]
    ELSE [db EXCEPT !.anomalies[id] = [@ EXCEPT !.status = status]]

InitAnomalies ==
    /\ HandlerInit
    /\ args = EmptyObject
    /\ result = <<>>

\* POST /anomalies: err answers 500, otherwise the row is there and the
\* request is answered 201 with its id
PostAnomaly(equipment_id, fails) ==
    /\ NextId(store.anomalies) <= LastSeeded("anomalies") + MaxCreated
    /\ args' = [route |-> "post", id |-> 0, equipment_id |-> equipment_id,
                status |-> "", resolution_notes |-> Undefined, fails |-> fails]
    /\ IF fails \/ equipment_id \notin DOMAIN store.equipment
       THEN /\ store' = store
            /\ result' = <<[status |-> 500, body |-> DatabaseError]>>
       ELSE /\ store' = InsertAnomaly(store)
            /\ result' = <<[status |-> 201,
                            body |-> [message |-> "Anomaly created successfully",
                                      id |-> NextId(store.anomalies)]]>>
    /\ UNCHANGED routerVars

\* PUT /anomalies/:id/status: err answers 500, an UPDATE that changed no
\* row answers 404, otherwise the request is answered 200
PutStatus(id, status, resolution_notes, fails) ==
    /\ args' = [route |-> "status", id |-> id, equipment_id |-> "",
                status |-> status, resolution_notes |-> resolution_notes,
                fails |-> fails]
    /\ IF fails
       THEN /\ store' = store
            /\ result' = <<[status |-> 500, body |-> DatabaseError]>>
       ELSE IF id \notin DOMAIN store.anomalies
       THEN /\ store' = store
            /\ result' = <<[status |-> 404,
                            body |-> [error |-> "Anomaly not found"]]>>
       ELSE /\ store' = UpdateAnomaly(store, id, status, resolution_notes)
            /\ result' = <<[status |-> 200,
                            body |-> [message |->
                                        "Anomaly status updated successfully"]]>>
    /\ UNCHANGED routerVars

NextAnomalies ==
    \/ \E equipment_id \in BodyEquipmentIds, fails \in BOOLEAN :
            PostAnomaly(equipment_id, fails)
    \/ \E id \in PutIds("anomalies"), status \in BodyStatuses,
           resolution_notes \in BodyNotes, fails \in BOOLEAN :
            PutStatus(id, status, resolution_notes, fails)

SpecAnomalies == InitAnomalies /\ [][NextAnomalies]_vars

-----------------------------------------------------------------------------
(* Properties of the request handlers (specification Spec) *)

SimpleEndpoints == {"demand", "maintenance", "utilization", "return-dates"}

\* the k-th query of request r failed: its callback ran and assigned nothing
QueryFailed(r, k) ==
    /\ k \in QueriesOf(kind[r]) \ pending[r]
    /\ InsightsKey(k) \notin DOMAIN insights[r]

\* request r was answered with a success body
Answered200(r) == responses[r] # <<>> /\ responses[r][1].status = 200

\* request r was answered with status 500 and {error: "Database error"}
Answered500(r) ==
    /\ responses[r] # <<>>
    /\ responses[r][1].status = 500
    /\ responses[r][1].body = DatabaseError

\* C1: every /insights request gets exactly one response, whichever of its
\* three queries fail and in whatever order the callbacks run: res.json is
\* never called on an answered request, the process never dies of it, and
\* once the three callbacks have run the request is answered.
C1_InsightsExactlyOneResponse ==
    \A r \in Reqs :
        kind[r] = "insights" =>
            /\ sendCalls[r] <= 1
            /\ ~crashed
            /\ pending[r] = {} => Len(responses[r]) = 1

\* C2: /insights sends a success body only after all three queries have
\* succeeded; the body then holds the three result sets and the
\* recommendations computed from them; once a query has failed the request
\* never carries a success body.
C2_InsightsSuccessOnlyWhenAllSucceed ==
    \A r \in Reqs :
        kind[r] = "insights" =>
            /\ Answered200(r) =>
                  LET body == responses[r][1].body
                      sets == [key \in {"equipmentPerformance", "customerBehavior",
                                        "seasonalTrends"} |-> body[key]]
                  IN  /\ pending[r] = {}
                      /\ completed[r] = 3
                      /\ \A k \in {0, 1, 2} : ~QueryFailed(r, k)
                      /\ DOMAIN body = {"equipmentPerformance", "customerBehavior",
                                        "seasonalTrends", "recommendations"}
                      /\ \A k \in {0, 1, 2} :
                            body[InsightsKey(k)] \in InsightsResults(k)
                      /\ body.recommendations = generateRecommendations(sets)
                      /\ derivedCalls[r] = 1
            /\ (\E k \in {0, 1, 2} : QueryFailed(r, k)) => ~Answered200(r)

\* an /insights request whose three queries succeeded, answered with
\* recommendations drawn from non-empty result sets
C2_Witness ==
    \E r \in Reqs :
        /\ kind[r] = "insights"
        /\ Answered200(r)
        /\ Len(responses[r][1].body.recommendations) = 3

\* the values a one-query handler can hand to res.json on success
PossiblePredictions(endpoint, query) ==
    CASE endpoint = "demand" ->
            {generateDemandPredictions(rows, parseInt(PeriodOf(query)), m) :
                rows \in DemandResults, m \in Months}
      [] endpoint = "maintenance" ->
            UNION {{enhanceMaintenancePredictions(rows, randoms) :
                        randoms \in [DOMAIN rows -> Randoms]} :
                   rows \in MaintenanceResults}
      [] endpoint = "utilization" ->
            UNION {{generateUtilizationPredictions(rows, randoms) :
                        randoms \in [DOMAIN rows -> Randoms]} :
                   rows \in UtilizationResults}
      [] endpoint = "return-dates" ->
            UNION {{generateReturnDatePredictions(rows, env) :
                        env \in [DOMAIN rows ->
                                    [random : Randoms, springForward : BOOLEAN]]} :
                   rows \in ReturnDateResults}

-----------------------------------------------------------------------------
(* Properties of getSeasonalMultiplier (specification SpecSeasonal) *)

\* C8: for an equipment type that is no key of the seasonal table the
\* multiplier is 1.0 (10 tenths) in every month 1..12; for a listed type it
\* is the table entry at index month - 1 (the month-th of the sequence).
C8_SeasonalMultiplier ==
    result # <<>> =>
        /\ args.equipmentType \notin {"Excavator", "Bulldozer", "Wheel Loader"}
              => result[1] = 10
        /\ args.equipmentType = "Excavator"
              => result[1] = <<8, 9, 12, 13, 14, 13, 12, 11, 10, 9, 8, 7>>[args.month]
        /\ args.equipmentType = "Bulldozer"
              => result[1] = <<7, 8, 11, 13, 14, 14, 13, 12, 11, 10, 9, 8>>[args.month]
        /\ args.equipmentType = "Wheel Loader"
              => result[1] = <<9, 10, 11, 12, 13, 12, 11, 10, 10, 10, 9, 9>>[args.month]

\* the multiplier of an unlisted type was computed for December
C8_Witness ==
    /\ result = <<10>>
    /\ args.equipmentType = "Motor Grader"
    /\ args.month = 12

-----------------------------------------------------------------------------
(* Properties of generateDemandPredictions (specification SpecDemand) *)

\* the number of grouped rows of a type among the rows given
GroupedRows(type) ==
    Cardinality({i \in DOMAIN args.historicalData :
                    args.historicalData[i].equipment_type = type})

\* C6: every entry the demand estimator returns has confidence_score =
\* min(95, max(60, 80 + 2n)), n being the number of grouped rows of its type,
\* and so a confidence_score within 60..95.
C6_ConfidenceFormula ==
    result # <<>> =>
        \A i \in DOMAIN result[1] :
            LET entry == result[1][i]
                n == GroupedRows(entry.equipment_type)
                wanted == 80 + 2 * n
            IN  /\ entry.confidence_score =
                      (IF wanted > 95 THEN 95 ELSE IF wanted < 60 THEN 60 ELSE wanted)
                /\ entry.confidence_score \in 60 .. 95

\* an entry whose 8 grouped rows put 80 + 2n above the cap of 95
C6_Witness ==
    /\ result # <<>>
    /\ \E i \in DOMAIN result[1] :
          /\ GroupedRows(result[1][i].equipment_type) = 8
          /\ result[1][i].confidence_score = 95

\* the equipment types of the model with no grouped row among the rows given
TypesWithoutRows == {type \in EquipmentTypes : GroupedRows(type) = 0}

\* C7: with zero grouped rows for an equipment type the mean defaults to 0,
\* predicted_demand is 0 and confidence_score floors at 60 (read for a
\* numeric forecast window, the case most favourable to the statement).
C7_ZeroRowsFloorAt60 ==
    result # <<>> /\ args.days.t = "number" =>
        \A type \in TypesWithoutRows :
            LET entry == DemandForType(args.historicalData, type,
                                       args.days, args.currentMonth)
            IN  /\ AvgRentals(TypeData(args.historicalData, type)).num = 0
                /\ entry.predicted_demand = Num(0)
                /\ entry.confidence_score = 60

\* C7 as amended: an equipment type with zero grouped rows gets no entry at
\* all (the list is empty when there are no rows); on an empty group the
\* per-type computation gives mean 0, confidence_score 80 = 80 + 2 * 0, and
\* predicted_demand 0 for a numeric window; every returned entry has a
\* confidence_score of at least 82, so the floor of 60 is never attained.
C7_ZeroRowsNoEntry ==
    result # <<>> =>
        /\ \A type \in TypesWithoutRows :
              LET entry == DemandForType(args.historicalData, type,
                                         args.days, args.currentMonth)
                  mean == AvgRentals(TypeData(args.historicalData, type))
              IN  /\ \A i \in DOMAIN result[1] : result[1][i].equipment_type # type
                  /\ mean.num = 0 /\ mean.den # 0
                  /\ entry.confidence_score = 80
                  /\ args.days.t = "number" => entry.predicted_demand = Num(0)
        /\ args.historicalData = <<>> => result[1] = <<>>
        /\ \A i \in DOMAIN result[1] : result[1][i].confidence_score >= 82

\* the estimator was called with no grouped rows and a 30-day window
C7_Witness ==
    /\ result = << <<>> >>
    /\ args.historicalData = <<>>
    /\ args.days = Num(30)

-----------------------------------------------------------------------------
(* Properties of enhanceMaintenancePredictions (specification              *)
(* SpecMaintenance)                                                        *)

\* C4: whatever overall_health_score, utilization_rate and
\* total_runtime_hours a row holds (null included), its risk_score lies
\* within 0..100.
C4_RiskScoreInRange ==
    result # <<>> =>
        \A i \in DOMAIN result[1] : result[1][i].risk_score \in 0 .. 100

\* C5: for every row and every random draw the failure_probability returned
\* lies within 5..95.
C5_FailureProbabilityInRange ==
    result # <<>> =>
        \A i \in DOMAIN result[1] : result[1][i].failure_probability \in 5 .. 95

\* a row of risk_score 0 whose draw puts risk_score + noise at -10, below
\* the floor
C5_Witness ==
    /\ result # <<>>
    /\ args.randoms = <<0>>
    /\ result[1][1].risk_score = 0
    /\ result[1][1].failure_probability = 5

\* ((100 - health)/100 + utilization/100 + runtime/10000) * 33.33 of a row,
\* in millionths, null columns counting as 0
RiskFormula(item) ==
    ( (100 - ToNumber(item.overall_health_score)) * 100
      + ToNumber(item.utilization_rate) * 100
      + ToNumber(item.total_runtime_hours) ) * 3333

\* C9: for every row risk_score is round(((100 - health)/100 +
\* utilization/100 + runtime/10000) * 33.33) clamped to 0..100; (100, 0, 0)
\* gives 0 and (0, 100, 10000) gives 100.
C9_RiskScoreFormula ==
    result # <<>> =>
        \A i \in DOMAIN result[1] :
            LET item == args.data[i]
                rounded == (2 * RiskFormula(item) + 1000000) \div 2000000
                clamped == IF rounded < 0 THEN 0
                           ELSE IF rounded > 100 THEN 100 ELSE rounded
            IN  /\ result[1][i].risk_score = clamped
                /\ (/\ item.overall_health_score = Num(100)
                     /\ item.utilization_rate = Num(0)
                     /\ item.total_runtime_hours = Num(0))
                      => result[1][i].risk_score = 0
                /\ (/\ item.overall_health_score = Num(0)
                     /\ item.utilization_rate = Num(100)
                     /\ item.total_runtime_hours = Num(10000))
                      => result[1][i].risk_score = 100

\* C10: maintenance_window is a total lookup on maintenance_priority: 5, 4,
\* 3, 2, 1 give "1-3 days", "1-2 weeks", "2-4 weeks", "1-2 months",
\* "3+ months", and every other value (6, 0, negative, null) gives
\* "3+ months".
C10_MaintenanceWindow ==
    result # <<>> =>
        \A i \in DOMAIN result[1] :
            LET priority == args.data[i].maintenance_priority
                window == result[1][i].maintenance_window
            IN  /\ priority = Num(5) => window = "1-3 days"
                /\ priority = Num(4) => window = "1-2 weeks"
                /\ priority = Num(3) => window = "2-4 weeks"
                /\ priority = Num(2) => window = "1-2 months"
                /\ priority = Num(1) => window = "3+ months"
                /\ priority \notin {Num(1), Num(2), Num(3), Num(4), Num(5)}
                      => window = "3+ months"

\* a row of the out-of-range priority 6 was given the fallback window
C10_Witness ==
    /\ result # <<>>
    /\ args.data[1].maintenance_priority = Num(6)
    /\ result[1][1].maintenance_window = "3+ months"

-----------------------------------------------------------------------------
(* Properties of generateRecommendations (specification SpecRecommendations) *)

\* the rows under a key of the insights object, none when the key is absent
RowsOf(ins, key) == IF key \in DOMAIN ins THEN ins[key] ELSE <<>>

\* each of the three insight sets is empty or absent
EmptyInsights(ins) ==
    \A key \in {"equipmentPerformance", "customerBehavior", "seasonalTrends"} :
        RowsOf(ins, key) = <<>>

\* C11: called with insight sets each of which is empty or absent, the
\* recommendation generator returns the empty list of recommendations (and
\* so returns at all: no key that is absent is dereferenced).
C11_EmptyInsightsNoRecommendations ==
    (result # <<>> /\ EmptyInsights(args)) => result[1] = <<>>

\* the generator returned for an insights object without equipment rows,
\* its customer set present and empty, and its seasonal set absent
C11_Witness ==
    /\ result = << <<>> >>
    /\ "equipmentPerformance" \notin DOMAIN args
    /\ "customerBehavior" \in DOMAIN args /\ args.customerBehavior = <<>>
    /\ "seasonalTrends" \notin DOMAIN args

-----------------------------------------------------------------------------
(* Two invocations of generateDemandPredictions (specification             *)
(* SpecDemandTwice)                                                         *)

\* the entry of the seasonal table for a type and a month 1..12, in tenths
TableMultiplier(type, month) ==
    IF type \in DOMAIN patterns THEN patterns[type][month] ELSE 10

\* C12 as stated: two invocations with identical rows and window return
\* identical predicted_demand, confidence_score and trend for every type,
\* whenever they are made.
C12_DemandPureInRowsAndWindow ==
    Len(result) = 2 =>
        /\ Len(result[1]) = Len(result[2])
        /\ \A i \in DOMAIN result[1] :
              /\ result[1][i].equipment_type = result[2][i].equipment_type
              /\ result[1][i].predicted_demand = result[2][i].predicted_demand
              /\ result[1][i].confidence_score = result[2][i].confidence_score
              /\ result[1][i].trend = result[2][i].trend

\* C12, amended: the output is a function of the rows, the window and the
\* calendar month of the call.  Two invocations with identical rows and
\* window return the same types in the same order with the same
\* confidence_score whenever they are made, and the same predicted_demand
\* and trend for every type whose seasonal multiplier is the same in the
\* months of the two calls (in particular in the same month, and for every
\* type that the seasonal table does not list).
C12_DemandPureUpToMonth ==
    Len(result) = 2 =>
        /\ Len(result[1]) = Len(result[2])
        /\ \A i \in DOMAIN result[1] :
              LET type == result[1][i].equipment_type
              IN  /\ result[2][i].equipment_type = type
                  /\ result[1][i].confidence_score = result[2][i].confidence_score
                  /\ TableMultiplier(type, args.months[1])
                        = TableMultiplier(type, args.months[2])
                     => /\ result[1][i].predicted_demand
                             = result[2][i].predicted_demand
                        /\ result[1][i].trend = result[2][i].trend

\* the estimator ran in January and in November (multiplier 0.8 both) on an
\* Excavator row and a 30-day window, and predicted the same demand twice
C12_Witness ==
    /\ Len(result) = 2
    /\ args.months = <<1, 11>>
    /\ args.days = Num(30)
    /\ Len(result[1]) = 1
    /\ result[1][1].equipment_type = "Excavator"
    /\ result[1][1].predicted_demand.t = "number"
    /\ result[1][1].predicted_demand = result[2][1].predicted_demand

-----------------------------------------------------------------------------
(* Two calls of a scorer on the same rows (specification SpecScorersTwice) *)

\* two output rows have the same fields and agree on all but `fields`
AgreeOutside(row, other, fields) ==
    /\ DOMAIN row = DOMAIN other
    /\ \A f \in DOMAIN row \ fields : row[f] = other[f]

\* the two calls' outputs agree, row by row, on all but `fields`
CallsAgreeOutside(fields) ==
    /\ Len(result[1]) = Len(result[2])
    /\ \A i \in DOMAIN result[1] :
          AgreeOutside(result[1][i], result[2][i], fields)

\* C13 as stated: two calls of the maintenance, utilization or return-date
\* scorer on identical rows differ at most in failure_probability,
\* predicted_utilization and late_return_probability.
C13_OnlyThreeFieldsVary ==
    Len(result) = 2 =>
        CallsAgreeOutside({"failure_probability", "predicted_utilization",
                           "late_return_probability"})

\* C13, amended: two calls on identical rows differ at most in
\* failure_probability (maintenance scorer), in predicted_utilization
\* (utilization scorer), and in late_return_probability,
\* predicted_delay_days, predicted_return_date and risk_level (return-date
\* scorer); every other field of every row is equal across the two calls.
C13_OnlyNoiseDerivedFieldsVary ==
    Len(result) = 2 =>
        /\ args.scorer = "maintenance"
              => CallsAgreeOutside({"failure_probability"})
        /\ args.scorer = "utilization"
              => CallsAgreeOutside({"predicted_utilization"})
        /\ args.scorer = "return-dates"
              => CallsAgreeOutside({"late_return_probability",
                                    "predicted_delay_days",
                                    "predicted_return_date", "risk_level"})

\* the return-date scorer ran twice on one rental with different draws and
\* gave different delays and return dates, the input columns being the same
C13_Witness ==
    /\ Len(result) = 2
    /\ args.scorer = "return-dates"
    /\ result[1][1].predicted_delay_days # result[2][1].predicted_delay_days
    /\ result[1][1].predicted_return_date # result[2][1].predicted_return_date
    /\ result[1][1].credit_rating = result[2][1].credit_rating

-----------------------------------------------------------------------------
(* The period parameter of /predictions/demand (specification Spec) *)

\* the period of request r is absent, or is no number
PeriodAbsentOrMalformed(r) ==
    period[r] = <<>> \/ parseInt(period[r][1]) = NaN

\* C14: a /predictions/demand request whose period is absent or is not a
\* number raises no error: when its query succeeds it is answered with the
\* predictions of the default 30-day window, and every predicted_demand of
\* the response is an integer.
C14_MalformedPeriodDefaultsTo30 ==
    \A r \in Reqs :
        (kind[r] = "demand" /\ PeriodAbsentOrMalformed(r) /\ Answered200(r)) =>
            /\ ~crashed
            /\ \E rows \in DemandResults, currentMonth \in Months :
                  responses[r][1].body
                      = generateDemandPredictions(rows, Num(30), currentMonth)
            /\ \A i \in DOMAIN responses[r][1].body :
                  responses[r][1].body[i].predicted_demand.t = "number"

-----------------------------------------------------------------------------
(* The store under the prediction endpoints (specification Spec) *)

\* C15: no /predictions endpoint writes: after any sequence of requests,
\* answered with predictions or with the database error, every table of
\* the store holds what it held before.
C15_StoreUnchanged ==
    store = SeedStore

\* one request was answered with predictions and another with the database
\* error, and the tables are as they were
C15_Witness ==
    /\ \E r \in Reqs : Answered200(r)
    /\ \E r \in Reqs : Answered500(r)
    /\ store = SeedStore

-----------------------------------------------------------------------------
(* Concurrent /insights requests (specification Spec) *)

\* a callback of request r runs in this step: one of its pending queries
\* stops being pending
OwnCallbackRuns(r) ==
    /\ kind[r] = "insights"
    /\ pending'[r] # pending[r]
    /\ pending'[r] \subseteq pending[r]

\* C16: concurrent /insights requests share no mutable state.  The
\* completion counter and the insights object of a request change only in
\* a step of one of that request's own callbacks, and the success body a
\* request is answered with is that request's own insights object: the
\* rows its own three queries returned and the recommendations made from
\* them.
C16_InsightsRequestsIsolated ==
    [][\A r \in Reqs :
        /\ (completed'[r] # completed[r] \/ insights'[r] # insights[r])
              => OwnCallbackRuns(r)
        /\ (kind[r] = "insights" /\ responses[r] = <<>>
               /\ responses'[r] # <<>> /\ responses'[r][1].status = 200)
              => /\ OwnCallbackRuns(r)
                 /\ responses'[r][1].body = insights'[r]
                 /\ \A k \in {0, 1, 2} :
                       insights'[r][InsightsKey(k)] \in InsightsResults(k)
                 /\ insights'[r].recommendations
                       = generateRecommendations(
                             [key \in {InsightsKey(k) : k \in {0, 1, 2}}
                                 |-> insights'[r][key]])]_vars

\* two /insights requests are in flight with their callbacks interleaved:
\* each has had some of its callbacks run and not all, and they hold
\* different rows
C16_Witness ==
    /\ kind[1] = "insights" /\ kind[2] = "insights"
    /\ completed[1] = 2 /\ completed[2] = 1
    /\ "equipmentPerformance" \in DOMAIN insights[1]
    /\ "equipmentPerformance" \in DOMAIN insights[2]
    /\ insights[1].equipmentPerformance # insights[2].equipmentPerformance

-----------------------------------------------------------------------------
(* Properties of estimateMaintenanceCost (specification SpecMaintenance) *)

\* the base cost of the statement's table, 3000 for a type it does not list
TableBaseCost(type) ==
    CASE type = "Excavator" -> 3000
      [] type = "Bulldozer" -> 3500
      [] type = "Wheel Loader" -> 2500
      [] type = "Motor Grader" -> 2800
      [] type = "Articulated Truck" -> 4000
      [] OTHER -> 3000

\* round(base * (1 + p * 0.3)), the product taken in tenths
CostFormula(base, p) == (2 * base * (10 + 3 * p) + 10) \div 20

-----------------------------------------------------------------------------
(* The rules of generateRecommendations (specification                     *)
(* SpecRecommendations)                                                     *)

\* the positions of the recommendations of a type in the list returned
PositionsOf(type) == {i \in DOMAIN result[1] : result[1][i].type = type}

\* a recommendation of the type and the priority was emitted
Emitted(type, priority) ==
    \E i \in PositionsOf(type) : result[1][i].priority = priority

\* C18: "optimization" (high) is emitted exactly when some equipment type
\* has an average utilization below 70, "maintenance" (critical) exactly
\* when some type has at least one equipment of maintenance_priority >= 4,
\* "customer_management" (medium) exactly when the Corporate segment's
\* average overdue_days exceeds 2; at most one recommendation of each type
\* is emitted, and always in that order.
C18_RecommendationRules ==
    result # <<>> =>
        LET equipment == RowsOf(args, "equipmentPerformance")
            customers == RowsOf(args, "customerBehavior")
        IN  /\ Emitted("optimization", "high")
                  <=> \E i \in DOMAIN equipment :
                         /\ equipment[i].avg_utilization.t = "number"
                         /\ equipment[i].avg_utilization.v < 70
            /\ Emitted("maintenance", "critical")
                  <=> \E i \in DOMAIN equipment :
                         equipment[i].high_priority_maintenance >= 1
            /\ Emitted("customer_management", "medium")
                  <=> \E i \in DOMAIN customers :
                         /\ customers[i].customer_type = "Corporate"
                         /\ customers[i].avg_overdue_days.t = "number"
                         /\ customers[i].avg_overdue_days.v > 2
            /\ \A i \in DOMAIN result[1] :
                  result[1][i].type
                      \in {"optimization", "maintenance", "customer_management"}
            /\ \A type \in {"optimization", "maintenance", "customer_management"} :
                  Cardinality(PositionsOf(type)) <= 1
            /\ \A i \in PositionsOf("optimization"), j \in PositionsOf("maintenance") :
                  i < j
            /\ \A i \in PositionsOf("maintenance"),
                  j \in PositionsOf("customer_management") : i < j
            /\ \A i \in PositionsOf("optimization"),
                  j \in PositionsOf("customer_management") : i < j

-----------------------------------------------------------------------------
(* The demand formula (specification SpecDemand) *)

RECURSIVE RentalsOfType(_, _)
\* the sum of historical_rentals over the first n rows given that are of
\* the type
RentalsOfType(type, n) ==
    IF n = 0 THEN 0
    ELSE RentalsOfType(type, n - 1)
            + (IF args.historicalData[n].equipment_type = type
               THEN args.historicalData[n].historical_rentals ELSE 0)

\* C19: the demand estimator returns exactly one entry per distinct
\* equipment type of its rows.  With mean the arithmetic mean of
\* historical_rentals over the type's rows, predicted_demand is
\* round(mean x seasonal multiplier x window_days / 30) for a window that
\* is a number of days, and trend is "increasing" exactly when
\* predicted_demand exceeds that mean, otherwise "decreasing".
C19_DemandFormula ==
    result # <<>> =>
        LET rows == args.historicalData
            types == {rows[k].equipment_type : k \in DOMAIN rows}
        IN  /\ Len(result[1]) = Cardinality(types)
            /\ \A type \in types :
                  Cardinality({i \in DOMAIN result[1] :
                                  result[1][i].equipment_type = type}) = 1
            /\ \A i \in DOMAIN result[1] :
                  LET type == result[1][i].equipment_type
                      sum == RentalsOfType(type, Len(rows))
                      count == GroupedRows(type)
                      tenths == TableMultiplier(type, args.currentMonth)
                      predicted == result[1][i].predicted_demand
                  IN  /\ type \in types
                      /\ args.days.t = "number" =>
                            /\ predicted.t = "number"
                            /\ predicted.v
                                 = (2 * sum * tenths * args.days.v + count * 300)
                                       \div (2 * count * 300)
                            /\ result[1][i].trend
                                 = IF predicted.v * count > sum
                                   THEN "increasing" ELSE "decreasing"

\* two types were estimated for a 30-day window in May from three rows: the
\* Excavator, mean 2.5 and multiplier 1.4, is predicted round(3.5) = 4 and
\* increasing; the Motor Grader, mean 4 and multiplier 1.0, is predicted 4
\* and decreasing
C19_Witness ==
    /\ result # <<>>
    /\ args.days = Num(30)
    /\ args.currentMonth = 5
    /\ Len(args.historicalData) = 3
    /\ Len(result[1]) = 2
    /\ \E i \in DOMAIN result[1] :
          /\ result[1][i].equipment_type = "Excavator"
          /\ RentalsOfType("Excavator", 3) = 5
          /\ result[1][i].predicted_demand = Num(4)
          /\ result[1][i].trend = "increasing"
    /\ \E i \in DOMAIN result[1] :
          /\ result[1][i].equipment_type = "Motor Grader"
          /\ RentalsOfType("Motor Grader", 3) = 4
          /\ result[1][i].predicted_demand = Num(4)
          /\ result[1][i].trend = "decreasing"

-----------------------------------------------------------------------------
(* Properties of generateUtilizationPredictions (specification             *)
(* SpecUtilization)                                                         *)

\* C20: for every utilization row and every noise value, utilization_trend
\* is "increasing" exactly when rental_frequency > 2 and "stable" otherwise
\* (a missing rental_frequency counting as 0), predicted_utilization lies
\* in [0, 100], and optimization_potential = max(0, 85 - current
\* utilization).
C20_UtilizationPredictor ==
    result # <<>> =>
        \A i \in DOMAIN result[1] :
            LET item == args.data[i]
                frequency == IF item.rental_frequency.t = "number"
                             THEN item.rental_frequency.v ELSE 0
                current == IF item.utilization_rate.t = "number"
                           THEN item.utilization_rate.v ELSE 0
                row == result[1][i]
            IN  /\ (row.utilization_trend = "increasing") <=> (frequency > 2)
                /\ row.utilization_trend \in {"increasing", "stable"}
                /\ row.predicted_utilization >= 0
                /\ row.predicted_utilization <= 100
                /\ row.optimization_potential
                      = (IF 85 - current > 0 THEN 85 - current ELSE 0)

\* an equipment used 3% of the time and rented twice got the lowest noise:
\* 3 - 5 - 5 is clamped to the floor 0, the trend is stable and the
\* optimization potential is 82
C20_Witness ==
    /\ result # <<>>
    /\ args.data[1].utilization_rate = Num(3)
    /\ args.data[1].rental_frequency = Num(2)
    /\ args.randoms[1] = 0
    /\ result[1][1].predicted_utilization = 0
    /\ result[1][1].utilization_trend = "stable"
    /\ result[1][1].optimization_potential = 82

-----------------------------------------------------------------------------
(* Properties of generateReturnDatePredictions (specification              *)
(* SpecReturnDates)                                                         *)

\* clamp(x, [low, high])
Clamp(x, low, high) == IF x < low THEN low ELSE IF x > high THEN high ELSE x

\* the statement's late probability of a rental, in RandomSteps-ths:
\* clamp((creditRiskFactor + durationFactor) x 50 + noise, [5, 90]), the
\* credit rating of the rental being counted as `rating`
StatedProbability(rental, rating, random) ==
    LET duration == IF rental.rental_duration_planned.t = "number"
                       /\ rental.rental_duration_planned.v > 30
                    THEN 10 ELSE 0
    IN  Clamp(((10 - rating) * 5 + duration) * RandomSteps + 20 * random,
              5 * RandomSteps, 90 * RandomSteps)

\* x / RandomSteps rounded to the nearest integer, halves upwards
Rounded(x) == (2 * x + RandomSteps) \div (2 * RandomSteps)

\* C21: for every active rental and every noise value the reported
\* late_return_probability is clamp((credit_risk_factor + duration_factor)
\* x 50 + noise, [5, 90]), rounded, with credit_risk_factor = (10 -
\* credit_rating) / 10 for every credit_rating, a missing one counting as
\* 0, and duration_factor = 0.2 for a planned duration over 30 days and 0
\* otherwise; it always lies within [5, 90].
C21_LateReturnProbability ==
    result # <<>> =>
        \A i \in DOMAIN result[1] :
            LET rental == args.data[i]
                rating == IF rental.credit_rating.t = "number"
                          THEN rental.credit_rating.v ELSE 0
            IN  /\ result[1][i].late_return_probability
                      = Rounded(StatedProbability(rental, rating,
                                                  args.env[i].random))
                /\ result[1][i].late_return_probability >= 5
                /\ result[1][i].late_return_probability <= 90

\* C22: for every active rental, predicted_delay_days is
\* round(late_probability / 10) when late_probability > 50 and 0 otherwise,
\* and predicted_return_date is exactly predicted_delay_days calendar days
\* after rental_end_date_planned (the same day when the delay is 0).
C22_ReturnDateIsPlannedPlusDelay ==
    result # <<>> =>
        \A i \in DOMAIN result[1] :
            LET probability ==
                    LateReturnProbability(args.data[i], args.env[i].random)
                row == result[1][i]
            IN  /\ row.predicted_delay_days
                      = (IF probability > 50 * RandomSteps
                         THEN (2 * probability + 10 * RandomSteps)
                                  \div (20 * RandomSteps)
                         ELSE 0)
                /\ row.predicted_return_date
                      = args.data[i].rental_end_date_planned
                            + row.predicted_delay_days

\* the late probability the code computes for the i-th rental, before it
\* is rounded for the report, in RandomSteps-ths
ProbabilityOf(i) == LateReturnProbability(args.data[i], args.env[i].random)

\* C23: for every active rental, risk_level is "High" if late_probability
\* > 70, "Medium" if 40 < late_probability <= 70, and "Low" otherwise;
\* exactly one of the three labels is assigned.
C23_RiskLevelByProbability ==
    result # <<>> =>
        \A i \in DOMAIN result[1] :
            LET level == result[1][i].risk_level
            IN  /\ level \in {"High", "Medium", "Low"}
                /\ (level = "High") <=> (ProbabilityOf(i) > 70 * RandomSteps)
                /\ (level = "Medium")
                      <=> /\ ProbabilityOf(i) > 40 * RandomSteps
                          /\ ProbabilityOf(i) <= 70 * RandomSteps
                /\ (level = "Low") <=> (ProbabilityOf(i) <= 40 * RandomSteps)

\* a rental of credit rating 1 planned for 45 days drew the highest noise
\* and is "High"
C23_Witness ==
    /\ result # <<>>
    /\ args.data[1].credit_rating = Num(1)
    /\ args.data[1].rental_duration_planned = Num(45)
    /\ args.env[1].random = RandomSteps - 1
    /\ result[1][1].risk_level = "High"

\* C24: every row agrees with the late_return_probability it
\* reports: risk_level is "High" exactly when the reported value is > 70,
\* "Medium" exactly when it is > 40 and <= 70, and predicted_delay_days is
\* positive exactly when it is > 50.
C24_ConsistentWithReported ==
    result # <<>> =>
        \A i \in DOMAIN result[1] :
            LET row == result[1][i]
                reported == row.late_return_probability
            IN  /\ (row.risk_level = "High") <=> (reported > 70)
                /\ (row.risk_level = "Medium") <=> (reported > 40 /\ reported <= 70)
                /\ (row.predicted_delay_days > 0) <=> (reported > 50)

\* C25: in every row predicted_delay_days is 0 or an integer in 5..9;
\* risk_level "High" implies predicted_delay_days >= 7 and risk_level "Low"
\* implies predicted_delay_days = 0.
C25_DelayRange ==
    result # <<>> =>
        \A i \in DOMAIN result[1] :
            LET row == result[1][i]
            IN  /\ row.predicted_delay_days \in {0} \cup 5 .. 9
                /\ row.risk_level = "High" => row.predicted_delay_days >= 7
                /\ row.risk_level = "Low" => row.predicted_delay_days = 0

\* a "Medium" rental just over the threshold of 50 was given the smallest
\* positive delay, 5 days
C25_Witness ==
    /\ result # <<>>
    /\ result[1][1].risk_level = "Medium"
    /\ result[1][1].predicted_delay_days = 5

\* C26: with a credit rating in 0..10 or missing, and whatever the noise,
\* only a rental with credit_rating 1 and a planned duration over 30 days
\* can be "High"; a rental with credit_rating 10 and a planned duration of
\* at most 30 days is always "Low" with predicted_delay_days 0.
C26_HighOnlyForWorstRating ==
    result # <<>> =>
        \A i \in DOMAIN result[1] :
            LET rental == args.data[i]
                row == result[1][i]
            IN  /\ (/\ rental.credit_rating \in
                           {Null} \cup {Num(rating) : rating \in 0 .. 10}
                    /\ row.risk_level = "High")
                      => /\ rental.credit_rating = Num(1)
                         /\ rental.rental_duration_planned.t = "number"
                         /\ rental.rental_duration_planned.v > 30
                /\ (/\ rental.credit_rating = Num(10)
                    /\ rental.rental_duration_planned.t = "number"
                    /\ rental.rental_duration_planned.v <= 30)
                      => /\ row.risk_level = "Low"
                         /\ row.predicted_delay_days = 0

\* a rental of credit rating 1 planned for 31 days is "High", seven days
\* late
C26_Witness ==
    /\ result # <<>>
    /\ args.data[1].credit_rating = Num(1)
    /\ args.data[1].rental_duration_planned = Num(31)
    /\ result[1][1].risk_level = "High"
    /\ result[1][1].predicted_delay_days = 7

-----------------------------------------------------------------------------
(* The direction of the utilization prediction (specification              *)
(* SpecUtilization)                                                         *)

-----------------------------------------------------------------------------
(* Properties of the rentals router (specification SpecRentals) *)

\* every request that arrived has run all of its statements
Quiescent == \A r \in Reqs : Idle(r)

\* some rental of the equipment has rental_status 'Active'
HasActiveRental(db, equipment_id) ==
    \E rental_id \in DOMAIN db.rentals :
        /\ db.rentals[rental_id].equipment_id = equipment_id
        /\ db.rentals[rental_id].rental_status = "Active"

RentedIffActive(db, equipment_id) ==
    db.equipment[equipment_id].status = "Rented"
        <=> HasActiveRental(db, equipment_id)

\* C28: once every create-rental and return-rental request that arrived has
\* completed, in whatever order their statements ran, an equipment whose
\* status agreed with its rentals when the server started is 'Rented'
\* exactly when one of its rentals is 'Active'.
C28_RentedIffActiveRental ==
    Quiescent =>
        \A equipment_id \in DOMAIN store.equipment :
            RentedIffActive(SeedStore, equipment_id)
                => RentedIffActive(store, equipment_id)

-----------------------------------------------------------------------------
(* Properties of the alerts router (specification SpecAlerts) *)

\* the rows of a table that a POST request created
Created(db, table) == DOMAIN db[table] \ DOMAIN SeedStore[table]

\* the status columns of the created alerts agree with their time stamps
CreatedAlertsStamped(db) ==
    \A id \in Created(db, "alerts") :
        /\ db.alerts[id].status = "Resolved" => db.alerts[id].resolved_at # Null
        /\ db.alerts[id].status = "Acknowledged"
              => db.alerts[id].acknowledged_at # Null

-----------------------------------------------------------------------------
(* Properties of the anomalies router (specification SpecAnomalies) *)

\* C30: after every request to the anomalies router, an anomaly created
\* through POST /anomalies whose status is 'Resolved' has resolved_at set.
C30_ResolvedAnomalyStamped ==
    \A id \in Created(store, "anomalies") :
        store.anomalies[id].status = "Resolved"
            => store.anomalies[id].resolved_at # Null

====
